---- MODULE Spec2Model ----
\* Model of the Blender external connectors of COLIBRI VR
\* (Runtime/ExternalConnectors/Blender_*.py): four batch scripts run by the
\* host with `blender --background --python <script> -- <args>`.
\* One run of one script is modelled statement by statement; the host calls
\* (bpy.ops.*, bpy.data.*) are modelled by their documented effect on the
\* scene, the file system and the standard output.
EXTENDS Integers, Sequences, FiniteSets, TLC

VARIABLES
    connector,          \* which script the host was asked to run
    sysargv,            \* sys.argv, a sequence of strings
    startScene,         \* bpy.data.objects when the script started
    pc,                 \* the statement about to execute
    status,             \* "running", "exit0" (sys.exit(0)) or "abnormal"
    raised,             \* the exception that ended the run, or "none"
    trace,              \* the statements started so far, in order
    objects,            \* bpy.data.objects, kept sorted by name by the host
    active,             \* bpy.context.view_layer.objects.active (index, 0 = none)
    fs,                 \* the file system: path -> file content
    stdout,             \* everything written to sys.stdout
    input_file_path,    \* local of main()
    output_file_path,   \* local of main()
    face_count,         \* face_count / original_face_count of main()
    new_face_count,     \* new_face_count of Blender_SimplifyOBJ.main()
    reported,           \* the arguments print_face_count was called with
    wrote,              \* this run's export_scene.obj call has written its file
    runs,               \* number of host processes launched so far
    inspected           \* results of the completed Inspect runs

vars == <<connector, sysargv, startScene, pc, status, raised, trace, objects,
          active, fs, stdout, input_file_path, output_file_path, face_count,
          new_face_count, reported, wrote, runs, inspected>>

-----------------------------------------------------------------------------
\* Bounds of the model.

\* Number of host processes launched one after the other on the same files.
MaxRuns == 2

-----------------------------------------------------------------------------
\* Strings.  A Python string is a sequence of chunks; a chunk is a piece of
\* text, a line break, or the decimal rendering of an integer (str(n)).

Txt(s) == [t |-> s, n |-> 0]

Num(k) == [t |-> "int", n |-> k]

NL == Txt("\n")

\* str(n) for an integer n.
Str(k) == <<Num(k)>>

RECURSIVE SplitLines(_, _, _)
SplitLines(text, cur, acc) ==
    IF text = <<>> THEN (IF cur = <<>> THEN acc ELSE Append(acc, cur))
    ELSE IF Head(text) = NL THEN SplitLines(Tail(text), <<>>, Append(acc, cur))
    ELSE SplitLines(Tail(text), Append(cur, Head(text)), acc)

\* The lines a reader of the stream sees.
Lines(text) == SplitLines(text, <<>>, <<>>)

\* A line of the form FACE_COUNT_OUTPUT:<n>, n a non-negative integer.
IsMarkerLine(l) ==
    /\ Len(l) = 2
    /\ l[1] = Txt("FACE_COUNT_OUTPUT:")
    /\ l[2].t = "int"
    /\ l[2].n >= 0

MarkerLines(text) == {i \in 1..Len(Lines(text)) : IsMarkerLine(Lines(text)[i])}

MarkerValues(text) == {Lines(text)[i][2].n : i \in MarkerLines(text)}

-----------------------------------------------------------------------------
\* Paths, files and scenes the runs are tried on.

ModuleDir == <<Txt("/colibri/ExternalConnectors")>>
BadModuleDir == <<Txt("/nowhere")>>
InPath == <<Txt("/data/in.mesh")>>
OutPath == <<Txt("/data/out.obj")>>
\* A path with line breaks in it: "/data/a\nFACE_COUNT_OUTPUT:7\nb.obj".
BrokenPath == <<Txt("/data/a"), NL, Txt("FACE_COUNT_OUTPUT:"), Num(7), NL, Txt("b.obj")>>
NoPath == <<>>

ModuleDirs == {ModuleDir, BadModuleDir}
InputPaths == {InPath, BrokenPath}
OutputPaths == {OutPath, BrokenPath}
Paths == {InPath, OutPath, BrokenPath}

Separator == <<Txt("--")>>
HostArgs == << <<Txt("blender")>>, <<Txt("--background")>>, <<Txt("--python")>>, <<Txt("script.py")>> >>

\* The connector-specific argument lists tried: none, and 1 to 3 positional ones.
ConnectorArgs ==
    {<<>>}
    \cup {<<m>> : m \in ModuleDirs}
    \cup {<<m, i>> : m \in ModuleDirs, i \in InputPaths}
    \cup {<<m, i, o>> : m \in ModuleDirs, i \in InputPaths, o \in OutputPaths}

ArgVectors == {HostArgs} \cup {HostArgs \o <<Separator>> \o a : a \in ConnectorArgs}

\* Meshes are given by the number of sides of each face.
Tetrahedron == <<3, 3, 3, 3>>
Pyramid == <<3, 3, 3, 3, 4>>
CubeQuads == <<4, 4, 4, 4, 4, 4>>

MeshData(polys) == [polygons |-> polys, rot |-> <<0, 0, 0>>, uv |-> FALSE]

AbsentFile == [kind |-> "absent", fmt |-> "none", meshes |-> <<>>]
ObjFile(ms) == [kind |-> "mesh", fmt |-> "OBJ", meshes |-> ms]
PlyFile(m) == [kind |-> "mesh", fmt |-> "PLY", meshes |-> <<m>>]

InputFiles ==
    { AbsentFile,
      ObjFile(<<>>),
      ObjFile(<<MeshData(Tetrahedron)>>),
      ObjFile(<<MeshData(Pyramid)>>),
      ObjFile(<<MeshData(Pyramid), MeshData(Tetrahedron)>>),
      PlyFile(MeshData(Tetrahedron)),
      PlyFile(MeshData(Pyramid)) }

Object(nm, ty, polys) ==
    [name |-> nm, type |-> ty, polygons |-> polys, select |-> FALSE,
     rotation_euler |-> <<0, 0, 0>>, modifiers |-> <<>>, mode |-> "OBJECT",
     uv |-> FALSE]

\* The host's start-up scenes: empty, one object, the default placeholder set.
\* Names are given by their rank in the host's name order.
StartScenes ==
    { <<>>,
      <<Object(2, "MESH", CubeQuads)>>,
      <<Object(1, "CAMERA", <<>>), Object(2, "MESH", CubeQuads), Object(3, "LIGHT", <<>>)>> }

Connectors == {"Inspect", "Convert", "Simplify", "UVUnwrap"}

-----------------------------------------------------------------------------
\* Python and host operations, as functions of the data they read.

\* list.index(x): the position of the first element equal to x, 0 when the
\* list has none (Python raises ValueError then).
Index(seq, x) ==
    IF \E i \in 1..Len(seq) : seq[i] = x
    THEN CHOOSE i \in 1..Len(seq) : seq[i] = x /\ \A j \in 1..(i - 1) : seq[j] # x
    ELSE 0

\* sys.argv[sys.argv.index("--") + 1:]
ArgsAfterSeparator(argv) == SubSeq(argv, Index(argv, Separator) + 1, Len(argv))

\* Mutant: argv[2] is never read.
ReadsOutputPathNever(c) == FALSE

\* Whether main() reads argv[2], the output path.
ReadsOutputPath(c) == c # "Inspect"

\* bpy.ops.object.select_all(action='SELECT')
SelectAll(objs) == [i \in 1..Len(objs) |-> [objs[i] EXCEPT !.select = TRUE]]

\* bpy.ops.object.delete(use_global=False): the selected objects leave the scene.
DeleteSelected(objs) == SelectSeq(objs, LAMBDA o : ~o.select)

\* Mutant: the guard is off by one, a scene of one object is left alone.
delete_all_on_start_off_by_one(objs) ==
    IF Len(objs) > 1 THEN DeleteSelected(SelectAll(objs)) ELSE objs

\* Mutant: the select_all call is missing, only selected objects go.
delete_all_on_start_no_select(objs) ==
    IF Len(objs) > 0 THEN DeleteSelected(objs) ELSE objs

\* Blender_Core.delete_all_on_start
delete_all_on_start(objs) ==
    IF Len(objs) > 0 THEN DeleteSelected(SelectAll(objs)) ELSE objs

\* print_out(line): the text sys.stdout holds after writing line + "\n".
print_out(out, line) == out \o line \o <<NL>>

\* print_face_count(n) = print_out("FACE_COUNT_OUTPUT:" + str(n))
print_face_count(out, k) == print_out(out, <<Txt("FACE_COUNT_OUTPUT:")>> \o Str(k))

\* The host keeps bpy.data.objects ordered by name.
RECURSIVE InsertByName(_, _)
InsertByName(objs, o) ==
    IF objs = <<>> THEN <<o>>
    ELSE IF o.name < Head(objs).name THEN <<o>> \o objs
    ELSE <<Head(objs)>> \o InsertByName(Tail(objs), o)

RECURSIVE InsertAll(_, _)
InsertAll(objs, new) ==
    IF new = <<>> THEN objs ELSE InsertAll(InsertByName(objs, Head(new)), Tail(new))

\* The objects an importer creates from a file: one mesh object per mesh of
\* the file, in the file's order (names ranked after the placeholders').
ImportedObjects(file) ==
    [i \in 1..Len(file.meshes) |-> Object(3 + i, "MESH", file.meshes[i].polygons)]

\* bpy.ops.import_scene.obj / bpy.ops.import_mesh.ply can read the file.
Importable(file, fmt) == file.kind = "mesh" /\ file.fmt = fmt

\* The importer each connector calls.
ImportFormat(c) == IF c = "Convert" THEN "PLY" ELSE "OBJ"

\* What export_scene.obj writes: every object of the scene that is a mesh.
ExportedFile(objs) ==
    LET ms == SelectSeq(objs, LAMBDA o : o.type = "MESH")
    IN  ObjFile([i \in 1..Len(ms) |->
            [polygons |-> ms[i].polygons, rot |-> ms[i].rotation_euler, uv |-> ms[i].uv]])

\* Sorting of face lists (the order of the faces carries no meaning).
RECURSIVE InsertSorted(_, _)
InsertSorted(s, k) ==
    IF s = <<>> THEN <<k>>
    ELSE IF k <= Head(s) THEN <<k>> \o s
    ELSE <<Head(s)>> \o InsertSorted(Tail(s), k)

RemoveAt(s, i) == SubSeq(s, 1, i - 1) \o SubSeq(s, i + 1, Len(s))

\* One dissolve of the DECIMATE modifier in DISSOLVE mode: either the edge
\* between two faces goes (a k-gon and an l-gon become one (k+l-2)-gon), or a
\* vertex on a straight boundary goes (a k-gon, k > 3, becomes a (k-1)-gon).
DissolveOnce(polys) ==
    {InsertSorted(RemoveAt(RemoveAt(polys, j), i), polys[i] + polys[j] - 2) :
        <<i, j>> \in {p \in (1..Len(polys)) \X (1..Len(polys)) : p[1] < p[2]}}
    \cup
    {InsertSorted(RemoveAt(polys, i), polys[i] - 1) :
        i \in {k \in 1..Len(polys) : polys[k] > 3}}

RECURSIVE DissolveClosure(_, _)
DissolveClosure(frontier, seen) ==
    IF frontier = {} THEN seen
    ELSE LET next == UNION {DissolveOnce(m) : m \in frontier}
         IN  DissolveClosure(next \ seen, seen \cup next)

\* The meshes modifier_apply can leave for a DECIMATE/DISSOLVE modifier:
\* which edges and vertices lie within the angle limit is the mesh's
\* geometry, which the face list does not hold.
DissolveResults(polys) == DissolveClosure({polys}, {polys})

RECURSIVE SumSides(_)
SumSides(polys) == IF polys = <<>> THEN 0 ELSE (Head(polys) - 2) + SumSides(Tail(polys))

\* Mutant: a k-gon is cut into k triangles around a new centre vertex.
RECURSIVE SumAllSides(_)
SumAllSides(polys) == IF polys = <<>> THEN 0 ELSE Head(polys) + SumAllSides(Tail(polys))

TriangulatedByFan(polys) == [i \in 1..SumAllSides(polys) |-> 3]

\* modifier_apply for a TRIANGULATE modifier: a k-gon becomes k-2 triangles.
Triangulated(polys) == [i \in 1..SumSides(polys) |-> 3]

-----------------------------------------------------------------------------
\* Control flow: the statement that follows statement l in connector c's
\* script when l completes.  Every script is straight-line code.

NextStepInspect(l) ==
    CASE l = "path_append"    -> "import_modules"
      [] l = "import_modules" -> "parse_args"
      [] l = "parse_args"     -> "reset"
      [] l = "reset"          -> "import"
      [] l = "import"         -> "read_count"
      [] l = "read_count"     -> "emit_marker"
      [] l = "emit_marker"    -> "info_count"
      [] l = "info_count"     -> "exit"
      [] OTHER                -> "terminated"

\* Mutant: Convert does not call delete_all_on_start().
NextStepConvertNoReset(l) ==
    CASE l = "path_append"    -> "import_modules"
      [] l = "import_modules" -> "parse_args"
      [] l = "parse_args"     -> "info_importing"
      [] l = "info_importing" -> "import"
      [] l = "import"         -> "select_object"
      [] l = "select_object"  -> "read_count"
      [] l = "read_count"     -> "emit_marker"
      [] l = "emit_marker"    -> "info_rotating"
      [] l = "info_rotating"  -> "rotate"
      [] l = "rotate"         -> "info_exporting"
      [] l = "info_exporting" -> "export"
      [] l = "export"         -> "info_finished"
      [] l = "info_finished"  -> "exit"
      [] OTHER                -> "terminated"

NextStepConvert(l) ==
    CASE l = "path_append"    -> "import_modules"
      [] l = "import_modules" -> "parse_args"
      [] l = "parse_args"     -> "reset"
      [] l = "reset"          -> "info_importing"
      [] l = "info_importing" -> "import"
      [] l = "import"         -> "select_object"
      [] l = "select_object"  -> "read_count"
      [] l = "read_count"     -> "emit_marker"
      [] l = "emit_marker"    -> "info_rotating"
      [] l = "info_rotating"  -> "rotate"
      [] l = "rotate"         -> "info_exporting"
      [] l = "info_exporting" -> "export"
      [] l = "export"         -> "info_finished"
      [] l = "info_finished"  -> "exit"
      [] OTHER                -> "terminated"

\* Mutant: Simplify exports the mesh before it transforms it.
NextStepSimplifyExportFirst(l) ==
    CASE l = "path_append"    -> "import_modules"
      [] l = "import_modules" -> "parse_args"
      [] l = "parse_args"     -> "reset"
      [] l = "reset"          -> "import"
      [] l = "import"         -> "select_object"
      [] l = "select_object"  -> "read_count"
      [] l = "read_count"     -> "export"
      [] l = "export"         -> "decimate"
      [] l = "decimate"       -> "triangulate"
      [] l = "triangulate"    -> "read_new_count"
      [] l = "read_new_count" -> "info_decimated"
      [] l = "info_decimated" -> "emit_marker"
      [] l = "emit_marker"    -> "info_finished"
      [] l = "info_finished"  -> "exit"
      [] OTHER                -> "terminated"

NextStepSimplify(l) ==
    CASE l = "path_append"    -> "import_modules"
      [] l = "import_modules" -> "parse_args"
      [] l = "parse_args"     -> "reset"
      [] l = "reset"          -> "import"
      [] l = "import"         -> "select_object"
      [] l = "select_object"  -> "read_count"
      [] l = "read_count"     -> "decimate"
      [] l = "decimate"       -> "triangulate"
      [] l = "triangulate"    -> "read_new_count"
      [] l = "read_new_count" -> "info_decimated"
      [] l = "info_decimated" -> "emit_marker"
      [] l = "emit_marker"    -> "export"
      [] l = "export"         -> "info_finished"
      [] l = "info_finished"  -> "exit"
      [] OTHER                -> "terminated"

\* Mutant: UV-Unwrap exports while still in edit mode.
NextStepUVUnwrapExportInEditMode(l) ==
    CASE l = "path_append"    -> "import_modules"
      [] l = "import_modules" -> "parse_args"
      [] l = "parse_args"     -> "reset"
      [] l = "reset"          -> "info_importing"
      [] l = "info_importing" -> "import"
      [] l = "import"         -> "select_object"
      [] l = "select_object"  -> "edit_mode"
      [] l = "edit_mode"      -> "select_all"
      [] l = "select_all"     -> "info_applying"
      [] l = "info_applying"  -> "smart_project"
      [] l = "smart_project"  -> "info_exporting"
      [] l = "info_exporting" -> "export"
      [] l = "export"         -> "object_mode"
      [] l = "object_mode"    -> "exit"
      [] OTHER                -> "terminated"

NextStepUVUnwrap(l) ==
    CASE l = "path_append"    -> "import_modules"
      [] l = "import_modules" -> "parse_args"
      [] l = "parse_args"     -> "reset"
      [] l = "reset"          -> "info_importing"
      [] l = "info_importing" -> "import"
      [] l = "import"         -> "select_object"
      [] l = "select_object"  -> "edit_mode"
      [] l = "edit_mode"      -> "select_all"
      [] l = "select_all"     -> "info_applying"
      [] l = "info_applying"  -> "smart_project"
      [] l = "smart_project"  -> "object_mode"
      [] l = "object_mode"    -> "info_exporting"
      [] l = "info_exporting" -> "export"
      [] l = "export"         -> "exit"
      [] OTHER                -> "terminated"

NextStep(c, l) ==
    CASE c = "Inspect"  -> NextStepInspect(l)
      [] c = "Convert"  -> NextStepConvert(l)
      [] c = "Simplify" -> NextStepSimplify(l)
      [] c = "UVUnwrap" -> NextStepUVUnwrap(l)

\* bpy.ops.object.modifier_add(type=ty) on an object.
AddModifier(obj, ty) == [obj EXCEPT !.modifiers = Append(@, ty)]

\* The face lists modifier_apply can leave for a modifier of type ty.
ModifierResults(ty, polys) ==
    IF ty = "DECIMATE" THEN DissolveResults(polys) ELSE {Triangulated(polys)}

\* bpy.ops.object.modifier_apply(modifier=obj.modifiers[0].name): the first
\* modifier of the stack is applied to the mesh data and leaves the stack.
ApplyFirstModifier(obj) ==
    {[obj EXCEPT !.polygons = m, !.modifiers = Tail(@)] :
        m \in ModifierResults(Head(obj.modifiers), obj.polygons)}

\* The modifier type each transform statement of Simplify adds.
ModifierOf(l) == IF l = "decimate" THEN "DECIMATE" ELSE "TRIANGULATE"

\* The mode each mode_set statement of UV-Unwrap asks for.
ModeOf(l) == IF l = "edit_mode" THEN "EDIT" ELSE "OBJECT"

\* The statement completes and control moves on.
Advance ==
    /\ pc' = NextStep(connector, pc)
    /\ trace' = Append(trace, pc)
    /\ UNCHANGED <<status, raised>>

\* Mutant: the exception is caught and the script carries on.
RaiseCaught(e) ==
    /\ pc' = NextStep(connector, pc)
    /\ trace' = Append(trace, pc)
    /\ status' = status
    /\ raised' = e

\* The statement raises e.  No script has a try statement, so the exception
\* leaves main() and the module, and the run ends there.
Raise(e) ==
    /\ pc' = "terminated"
    /\ trace' = Append(trace, pc)
    /\ status' = "abnormal"
    /\ raised' = e

\* Mutant: Simplify reports the count it read before the transforms.
MarkerArgumentOriginal(c) == face_count

\* The value each script hands to print_face_count.
MarkerArgument(c) == IF c = "Simplify" THEN new_face_count ELSE face_count

\* The text of each progress line.
InfoLine(l) ==
    CASE l = "info_importing" ->
            <<Txt("Importing mesh from ")>> \o input_file_path \o <<Txt(".")>>
      [] l = "info_count" ->
            <<Txt("Mesh currently has ")>> \o Str(face_count) \o <<Txt(" faces.")>>
      [] l = "info_rotating" -> <<Txt("Rotating mesh.")>>
      [] l = "info_exporting" ->
            <<Txt("Exporting mesh to ")>> \o output_file_path \o <<Txt(".")>>
      [] l = "info_finished" ->
            <<Txt("Finished operation. Mesh can be found at ")>> \o output_file_path
                \o <<Txt(".")>>
      [] l = "info_decimated" ->
            <<Txt("Decimated mesh from ")>> \o Str(face_count) \o <<Txt(" to ")>>
                \o Str(new_face_count) \o <<Txt(" faces.")>>
      [] l = "info_applying" -> <<Txt("Applying the Smart UV Project algorithm.")>>

InfoSteps ==
    {"info_importing", "info_count", "info_rotating", "info_exporting",
     "info_finished", "info_decimated", "info_applying"}

run == <<connector, sysargv, startScene>>
ctl == <<pc, status, raised, trace>>
locals == <<input_file_path, output_file_path, face_count, new_face_count>>
history == <<runs, inspected>>

-----------------------------------------------------------------------------
\* The state of a host process that has just been launched on a script.

Launch(c, argv, scene) ==
    /\ connector' = c
    /\ sysargv' = argv
    /\ startScene' = scene
    /\ objects' = scene
    /\ active' = 0
    /\ pc' = "path_append"
    /\ status' = "running"
    /\ raised' = "none"
    /\ trace' = <<>>
    /\ stdout' = <<>>
    /\ input_file_path' = NoPath
    /\ output_file_path' = NoPath
    /\ face_count' = 0
    /\ new_face_count' = 0
    /\ reported' = <<>>
    /\ wrote' = FALSE

Init ==
    /\ connector \in Connectors
    /\ sysargv \in ArgVectors
    /\ startScene \in StartScenes
    /\ objects = startScene
    /\ active = 0
    /\ pc = "path_append"
    /\ status = "running"
    /\ raised = "none"
    /\ trace = <<>>
    /\ stdout = <<>>
    /\ input_file_path = NoPath
    /\ output_file_path = NoPath
    /\ face_count = 0
    /\ new_face_count = 0
    /\ reported = <<>>
    /\ wrote = FALSE
    /\ \E f \in InputFiles :
          fs = [p \in Paths |-> IF p = InPath THEN f ELSE AbsentFile]
    /\ runs = 1
    /\ inspected = {}

\* sys.path.append(sys.argv[sys.argv.index("--") + 1:][0])
PathAppend ==
    /\ pc = "path_append"
    /\ IF Index(sysargv, Separator) = 0 THEN Raise("ValueError")
       ELSE IF Len(ArgsAfterSeparator(sysargv)) = 0 THEN Raise("IndexError")
       ELSE Advance
    /\ UNCHANGED <<run, objects, active, fs, stdout, locals, reported, wrote, history>>

\* import bpy; from Blender_Core import ...: Blender_Core is found in the
\* directory the first connector argument names.
ImportModules ==
    /\ pc = "import_modules"
    /\ IF ArgsAfterSeparator(sysargv)[1] = ModuleDir THEN Advance
       ELSE Raise("ImportError")
    /\ UNCHANGED <<run, objects, active, fs, stdout, locals, reported, wrote, history>>

\* argv = sys.argv[...]; input_file_path = str(argv[1]);
\* output_file_path = str(argv[2]) (not in Inspect)
ParseArgs ==
    /\ pc = "parse_args"
    /\ LET argv == ArgsAfterSeparator(sysargv)
       IN  IF Len(argv) < 2
           THEN Raise("IndexError") /\ UNCHANGED <<input_file_path, output_file_path>>
           ELSE IF ReadsOutputPath(connector) /\ Len(argv) < 3
           THEN /\ Raise("IndexError")
                /\ input_file_path' = argv[2]
                /\ UNCHANGED output_file_path
           ELSE /\ Advance
                /\ input_file_path' = argv[2]
                /\ output_file_path' =
                      IF ReadsOutputPath(connector) THEN argv[3] ELSE output_file_path
    /\ UNCHANGED <<run, objects, active, fs, stdout, face_count, new_face_count,
                   reported, wrote, history>>

\* delete_all_on_start()
Reset ==
    /\ pc = "reset"
    /\ objects' = delete_all_on_start(objects)
    /\ Advance
    /\ UNCHANGED <<run, active, fs, stdout, locals, reported, wrote, history>>

\* print_out(<progress line>)
Info ==
    /\ pc \in InfoSteps
    /\ stdout' = print_out(stdout, InfoLine(pc))
    /\ Advance
    /\ UNCHANGED <<run, objects, active, fs, locals, reported, wrote, history>>

\* bpy.ops.import_scene.obj(filepath=...) / bpy.ops.import_mesh.ply(filepath=...)
ImportMesh ==
    /\ pc = "import"
    /\ IF Importable(fs[input_file_path], ImportFormat(connector))
       THEN /\ objects' = InsertAll(objects, ImportedObjects(fs[input_file_path]))
            /\ Advance
       ELSE /\ Raise("RuntimeError")
            /\ UNCHANGED objects
    /\ UNCHANGED <<run, active, fs, stdout, locals, reported, wrote, history>>

\* global_obj = bpy.data.objects[0]
\* (Simplify, UV-Unwrap: bpy.context.view_layer.objects.active = global_obj)
SelectObject ==
    /\ pc = "select_object"
    /\ IF Len(objects) = 0
       THEN Raise("IndexError") /\ UNCHANGED active
       ELSE /\ active' = IF connector \in {"Simplify", "UVUnwrap"} THEN 1 ELSE active
            /\ Advance
    /\ UNCHANGED <<run, objects, fs, stdout, locals, reported, wrote, history>>

\* face_count = len(<object 0>.data.polygons)
ReadFaceCount ==
    /\ pc \in {"read_count", "read_new_count"}
    /\ IF Len(objects) = 0
       THEN Raise("IndexError") /\ UNCHANGED <<face_count, new_face_count>>
       ELSE IF objects[1].type # "MESH"
       THEN Raise("AttributeError") /\ UNCHANGED <<face_count, new_face_count>>
       ELSE /\ Advance
            /\ IF pc = "read_count"
               THEN face_count' = Len(objects[1].polygons) /\ UNCHANGED new_face_count
               ELSE new_face_count' = Len(objects[1].polygons) /\ UNCHANGED face_count
    /\ UNCHANGED <<run, objects, active, fs, stdout, input_file_path, output_file_path,
                   reported, wrote, history>>

\* print_face_count(face_count) / print_face_count(new_face_count)
EmitMarker ==
    /\ pc = "emit_marker"
    /\ stdout' = print_face_count(stdout, MarkerArgument(connector))
    /\ reported' = Append(reported, MarkerArgument(connector))
    /\ Advance
    /\ UNCHANGED <<run, objects, active, fs, locals, wrote, history>>

\* global_obj.rotation_euler[0] = radians(-90); global_obj.rotation_euler[2] = radians(180)
Rotate ==
    /\ pc = "rotate"
    /\ objects' = [objects EXCEPT ![1].rotation_euler = <<-90, @[2], 180>>]
    /\ Advance
    /\ UNCHANGED <<run, active, fs, stdout, locals, reported, wrote, history>>

\* bpy.ops.object.modifier_add(type='DECIMATE'); decimate_type = 'DISSOLVE';
\* angle_limit = 0.0872665; bpy.ops.object.modifier_apply(...)   and
\* bpy.ops.object.modifier_add(type='TRIANGULATE'); bpy.ops.object.modifier_apply(...)
\* The host operators work on the active object and may fail.
Transform ==
    /\ pc \in {"decimate", "triangulate"}
    /\ \E ok \in BOOLEAN :
          IF ok /\ active # 0 /\ objects[active].type = "MESH"
          THEN /\ \E o \in ApplyFirstModifier(AddModifier(objects[active], ModifierOf(pc))) :
                     objects' = [objects EXCEPT ![active] = o]
               /\ Advance
          ELSE /\ Raise("RuntimeError")
               /\ UNCHANGED objects
    /\ UNCHANGED <<run, active, fs, stdout, locals, reported, wrote, history>>

\* bpy.ops.object.mode_set(mode='EDIT') / bpy.ops.object.mode_set(mode='OBJECT')
ModeSet ==
    /\ pc \in {"edit_mode", "object_mode"}
    /\ \E ok \in BOOLEAN :
          IF ok /\ active # 0 /\ objects[active].type = "MESH"
          THEN /\ objects' = [objects EXCEPT ![active].mode = ModeOf(pc)]
               /\ Advance
          ELSE /\ Raise("RuntimeError")
               /\ UNCHANGED objects
    /\ UNCHANGED <<run, active, fs, stdout, locals, reported, wrote, history>>

\* bpy.ops.mesh.select_all(action='SELECT'): an edit-mode operator.
SelectAllFaces ==
    /\ pc = "select_all"
    /\ \E ok \in BOOLEAN :
          IF ok /\ active # 0 /\ objects[active].mode = "EDIT"
          THEN /\ objects' = [objects EXCEPT ![active].select = TRUE]
               /\ Advance
          ELSE /\ Raise("RuntimeError")
               /\ UNCHANGED objects
    /\ UNCHANGED <<run, active, fs, stdout, locals, reported, wrote, history>>

\* bpy.ops.uv.smart_project(): an edit-mode operator.
SmartProject ==
    /\ pc = "smart_project"
    /\ \E ok \in BOOLEAN :
          IF ok /\ active # 0 /\ objects[active].mode = "EDIT"
          THEN /\ objects' = [objects EXCEPT ![active].uv = TRUE]
               /\ Advance
          ELSE /\ Raise("RuntimeError")
               /\ UNCHANGED objects
    /\ UNCHANGED <<run, active, fs, stdout, locals, reported, wrote, history>>

\* bpy.ops.export_scene.obj(filepath=output_file_path): the file is written
\* whole, or the operator fails (directory missing, no permission, ...).
Export ==
    /\ pc = "export"
    /\ \E ok \in BOOLEAN :
          IF ok
          THEN /\ fs' = [fs EXCEPT ![output_file_path] = ExportedFile(objects)]
               /\ wrote' = TRUE
               /\ Advance
          ELSE /\ Raise("RuntimeError")
               /\ UNCHANGED <<fs, wrote>>
    /\ UNCHANGED <<run, objects, active, stdout, locals, reported, history>>

\* sys.exit(0)
Exit ==
    /\ pc = "exit"
    /\ pc' = "terminated"
    /\ trace' = Append(trace, pc)
    /\ status' = "exit0"
    /\ UNCHANGED raised
    /\ inspected' =
          IF connector = "Inspect"
          THEN inspected \cup {[file |-> fs[input_file_path], start |-> startScene,
                                 values |-> MarkerValues(stdout)]}
          ELSE inspected
    /\ UNCHANGED <<run, objects, active, fs, stdout, locals, reported, wrote, runs>>

\* The calling process launches the host again, on the files as they are now.
Relaunch ==
    /\ pc = "terminated"
    /\ runs < MaxRuns
    /\ \E c \in Connectors, argv \in ArgVectors, scene \in StartScenes :
          Launch(c, argv, scene)
    /\ runs' = runs + 1
    /\ UNCHANGED <<fs, inspected>>

Step ==
    \/ PathAppend
    \/ ImportModules
    \/ ParseArgs
    \/ Reset
    \/ Info
    \/ ImportMesh
    \/ SelectObject
    \/ ReadFaceCount
    \/ EmitMarker
    \/ Rotate
    \/ Transform
    \/ ModeSet
    \/ SelectAllFaces
    \/ SmartProject
    \/ Export
    \/ Exit

Next == Step \/ Relaunch

Spec == Init /\ [][Next]_vars

\* Every statement is a blocking call that returns or raises: a run that has
\* not terminated takes its next step.
FairSpec == Spec /\ WF_vars(Step)

\* Under FairSpec every run reaches Terminated.
RunTerminates == (pc # "terminated") ~> (pc = "terminated")

-----------------------------------------------------------------------------
\* Vocabulary of the properties.

InTrace(l) == \E i \in 1..Len(trace) : trace[i] = l

LastStep == IF trace = <<>> THEN "none" ELSE trace[Len(trace)]

\* The statements that come before delete_all_on_start().
PrologueSteps == {"path_append", "import_modules", "parse_args"}

IsPrefix(s, t) == Len(s) <= Len(t) /\ \A i \in 1..Len(s) : s[i] = t[i]

\* The number of connector arguments each connector needs.
NeededArgs == IF connector = "Inspect" THEN 2 ELSE 3

HasSeparator == Index(sysargv, Separator) # 0

\* The argument vector lets the run reach delete_all_on_start().
ArgsSuffice ==
    /\ HasSeparator
    /\ Len(ArgsAfterSeparator(sysargv)) >= NeededArgs
    /\ ArgsAfterSeparator(sysargv)[1] = ModuleDir

\* C1: for every connector and every starting scene (0, 1 or several
\* objects), the scene holds exactly zero objects when delete_all_on_start
\* returns and when the import step starts, and no import, transform, report
\* or export step runs before that reset.
C1_SceneEmptyAfterReset ==
    /\ LastStep = "reset" => Len(objects) = 0
    /\ pc = "import" => Len(objects) = 0
    /\ \A i \in 1..Len(trace) :
          trace[i] \notin (PrologueSteps \cup {"reset"})
             => \E j \in 1..(i - 1) : trace[j] = "reset"

C1_Witness ==
    /\ pc = "import"
    /\ Len(startScene) = 3
    /\ connector = "Simplify"

\* C2: every run of Inspect, Convert or Simplify that ends with exit status 0
\* has written exactly one stdout line of the form FACE_COUNT_OUTPUT:<n>, no
\* run of any connector writes more than one, and UV-Unwrap writes none.
C2_ExactlyOneMarkerLine ==
    /\ Cardinality(MarkerLines(stdout)) <= 1
    /\ connector = "UVUnwrap" => MarkerLines(stdout) = {}
    /\ (status = "exit0" /\ connector # "UVUnwrap")
          => Cardinality(MarkerLines(stdout)) = 1

\* The run's paths hold no line break.
PlainPaths == \A i \in 1..Len(sysargv) : \A j \in 1..Len(sysargv[i]) : sysargv[i][j] # NL

C4_ExitZeroIffNoError ==
    /\ pc = "terminated" => (status = "exit0" <=> raised = "none")
    /\ raised # "none" => (pc = "terminated" /\ status = "abnormal")
    /\ status = "exit0" => (pc = "terminated" /\ LastStep = "exit")
    /\ pc # "terminated" => status = "running"

C4_Witness ==
    /\ pc = "terminated"
    /\ connector = "Simplify"
    /\ raised = "RuntimeError"
    /\ LastStep = "decimate"

\* C5 as stated: no run terminates without having executed the reset.
C5_EveryRunResets ==
    pc = "terminated" => InTrace("reset")

\* C5 as amended: a run never stops before Terminated (it can always take
\* its next step, and takes at most 15), and a terminated run has executed
\* the reset exactly when its argument vector let it reach
\* delete_all_on_start(): "--" is present, enough connector arguments follow
\* it, and the first names the directory of Blender_Core.
C5_ResetIffArgsSuffice ==
    /\ pc = "terminated" \/ ENABLED Step
    /\ Len(trace) <= 15
    /\ pc = "terminated" => (InTrace("reset") <=> ArgsSuffice)

C5_Witness ==
    /\ pc = "terminated"
    /\ status = "abnormal"
    /\ ArgsSuffice
    /\ InTrace("reset")

\* C6 as stated: when fewer connector arguments follow "--" than the
\* connector needs, the run ends abnormally with an out-of-range access,
\* before any output file is written or any marker is emitted.
C6_ShortArgsRaiseIndexError ==
    (HasSeparator /\ Len(ArgsAfterSeparator(sysargv)) < NeededArgs) =>
        /\ pc = "terminated" => (status = "abnormal" /\ raised = "IndexError")
        /\ ~wrote
        /\ MarkerLines(stdout) = {}

\* C6 as amended: such a run ends abnormally, with an out-of-range access
\* or, when its first argument is not the directory of Blender_Core, with
\* the import error raised before argv[1] is read; nothing is written to
\* stdout or to the output file.
C6_ShortArgsFailBeforeOutput ==
    (HasSeparator /\ Len(ArgsAfterSeparator(sysargv)) < NeededArgs) =>
        /\ pc = "terminated" =>
              /\ status = "abnormal"
              /\ raised = (IF Len(ArgsAfterSeparator(sysargv)) > 0
                              /\ ArgsAfterSeparator(sysargv)[1] # ModuleDir
                           THEN "ImportError" ELSE "IndexError")
        /\ ~wrote
        /\ stdout = <<>>
        /\ ~InTrace("reset")

C6_Witness ==
    /\ pc = "terminated"
    /\ connector = "Convert"
    /\ Len(ArgsAfterSeparator(sysargv)) = 2
    /\ HasSeparator
    /\ raised = "IndexError"

\* The first mesh of the input file, which import makes object 0.
InputPolygons == fs[input_file_path].meshes[1].polygons

\* C7 as stated: in every successful Simplify run the new face count is at
\* most the original face count, also for meshes with quads or n-gons.
C7_NewCountAtMostOriginal ==
    (connector = "Simplify" /\ status = "exit0") => new_face_count <= face_count

\* C7 as amended: the new face count Simplify reports is at most the number
\* of triangles of the input mesh (k-2 for each k-sided face), hence at most
\* the original face count when every input face is a triangle.
C7_NewCountAtMostTriangles ==
    (connector = "Simplify" /\ pc \in {"info_decimated", "emit_marker", "export"}) =>
        /\ new_face_count <= SumSides(InputPolygons)
        /\ (\A i \in 1..Len(InputPolygons) : InputPolygons[i] = 3)
              => new_face_count <= face_count

C7_Witness ==
    /\ connector = "Simplify"
    /\ pc = "export"
    /\ InputPolygons = Pyramid
    /\ new_face_count < SumSides(InputPolygons)
    /\ new_face_count > 3

\* C8: Inspect run twice on the same unchanged input file reports the same
\* FACE_COUNT_OUTPUT value both times, whatever scene each host session
\* started with.
C8_InspectDependsOnFileOnly ==
    \A a \in inspected, b \in inspected :
        a.file = b.file =>
            /\ a.values = b.values
            /\ Cardinality(a.values) = 1

C8_Witness ==
    \E a \in inspected, b \in inspected :
        /\ a.file = b.file
        /\ a.start = <<>>
        /\ Len(b.start) = 3

\* The statements the pipeline table does not list: the prologue, the
\* binding of object 0 to a name, and the progress lines.
Unlisted ==
    PrologueSteps \cup {"select_object", "info_importing", "info_rotating",
                        "info_exporting", "info_finished", "info_applying"}

\* The pipeline table, one fixed sequence per connector.
PipelineTable ==
    [Inspect  |-> <<"reset", "import", "read_count", "emit_marker", "info_count", "exit">>,
     Convert  |-> <<"reset", "import", "read_count", "emit_marker", "rotate", "export",
                    "exit">>,
     Simplify |-> <<"reset", "import", "read_count", "decimate", "triangulate",
                    "read_new_count", "info_decimated", "emit_marker", "export", "exit">>,
     UVUnwrap |-> <<"reset", "import", "edit_mode", "select_all", "smart_project",
                    "object_mode", "export", "exit">>]

Listed(l) == l \notin Unlisted

\* C9: the steps a run executes, successful or aborted, are a prefix of its
\* connector's sequence in the pipeline table, each step at most once; export
\* never precedes a transform and Inspect never exports.
C9_TraceIsPrefixOfPipeline ==
    /\ IsPrefix(SelectSeq(trace, Listed), PipelineTable[connector])
    /\ \A i \in 1..Len(trace), j \in 1..Len(trace) : trace[i] = trace[j] => i = j
    /\ connector = "Inspect" => ~InTrace("export")

C9_Witness ==
    /\ connector = "UVUnwrap"
    /\ pc = "terminated"
    /\ status = "abnormal"
    /\ LastStep = "smart_project"

\* C10: in every successful run of Convert or Simplify the integer handed to
\* print_face_count is the face count of object 0 at export, which is the
\* face count of the mesh written to the output file.
C10_MarkerIsExportedFaceCount ==
    (status = "exit0" /\ connector \in {"Convert", "Simplify"}) =>
        /\ reported = <<Len(objects[1].polygons)>>
        /\ reported = <<Len(fs[output_file_path].meshes[1].polygons)>>

C10_Witness ==
    /\ status = "exit0"
    /\ connector = "Simplify"
    /\ new_face_count # face_count
    /\ reported = <<new_face_count>>

====
